---------------------------- MODULE Spec2Model ----------------------------
(***************************************************************************)
(* Model of common/main/d_zip.h: the zip view over N borrowed ranges, its  *)
(* iterator (a tuple of per-range positions advanced in lock step), its    *)
(* sentinel (end positions of the examined ranges only), the selector mask *)
(* and the compile-time static-size check of the zip class.                *)
(*                                                                         *)
(* A range is a record [static |-> BOOLEAN, len |-> Nat]: static ranges    *)
(* are C arrays / std::array (get_static_size reports len), the others     *)
(* have no static size.  Range number i (1-based here, i-1 in the source)  *)
(* lives at addresses Base(i) .. Base(i) + len - 1, and a position is an   *)
(* address, so that positions of different ranges are different values.    *)
(***************************************************************************)
EXTENDS Integers, Sequences, FiniteSets

\* Largest number of zipped ranges that is explored.
MaxN == 3

\* Largest length of a zipped range that is explored.
MaxLen == 3

VARIABLES
    pc,       \* position of the caller: "new", "rejected", "constructed",
              \* "test", "body", "step", "done", "trap"
    ctor,     \* which constructor built the view: "A" (no selector), "B"
    mask,     \* examine_end_range, the selector of the zip class
    ranges,   \* the zipped ranges rN...
    pos,      \* the zip_iterator i of the loop: its base_type tuple
    m_end,    \* zip::m_end, the sentinel
    eq,       \* result of the last i == e
    tup,      \* result of the last *i
    ret,      \* value returned by the last ++i / i++
    k,        \* number of advances of i since begin()
    yielded,  \* number of tuples the loop body has received
    ub        \* TRUE once the loop has executed undefined behaviour

vars == <<pc, ctor, mask, ranges, pos, m_end, eq, tup, ret, k, yielded, ub>>

Pow2(n) == 2 ^ n

\* The selectors (a uint32_t in the source): every mask over the bits
\* 0 .. MaxN-1, and the mask of bit MaxN alone, a bit no zipped range has.
Masks == 0 .. Pow2(MaxN)

Ranges == [static : BOOLEAN, len : 0 .. MaxLen]

RangeTuples == UNION {[1 .. n -> Ranges] : n \in 1 .. MaxN}

\* Addresses: range i occupies a block of its own.
Base(i) == i * (MaxLen + 3)

\* std::begin(rN) and std::ranges::end(rN)
Begin(rs, i) == Base(i)

End(rs, i) == Base(i) + rs[i].len

\* std::nullptr_t: "no static size"
nullptr_t == -1

\* std::ignore: the placeholder of an unexamined slot of the sentinel
ignore == -2

\* get_static_size: N for T[N], tuple_size for std::array, nullptr_t otherwise
get_static_size(r) == IF r.static THEN r.len ELSE nullptr_t

\* examine_zip_element testing the bit above the element's own (1u << (N + 1))
examine_zip_element_shifted(m, n) == n < 32 /\ ((m \div Pow2(n + 1)) % 2 = 1)

\* examine_zip_element<mask, n>, n counted from 0
examine_zip_element(m, n) == n < 32 /\ ((m \div Pow2(n)) % 2 = 1)

\* get_examined_static_size that forgets to discard the unexamined sizes
get_examined_static_size_unfiltered(m, sizes) ==
    [i \in 1 .. Len(sizes) |-> sizes[i]]

\* get_examined_static_size: keep the size of examined elements only
get_examined_static_size(m, sizes) ==
    [i \in 1 .. Len(sizes) |->
        IF examine_zip_element(m, i - 1) THEN sizes[i] ELSE nullptr_t]

\* std::conditional<(size0 < size1), size0, size1>
lesser_size(size0, size1) == IF size0 < size1 THEN size0 ELSE size1

\* minimum_static_size: the four partial specialisations, in the order the
\* constraints select them.
RECURSIVE minimum_static_size(_)
minimum_static_size(t) ==
    IF Len(t) = 1 THEN t[1]
    ELSE IF t[1] = nullptr_t THEN minimum_static_size(Tail(t))
    ELSE IF t[2] = nullptr_t
        THEN minimum_static_size(<<t[1]>> \o Tail(Tail(t)))
    ELSE minimum_static_size(<<lesser_size(t[1], t[2])>> \o Tail(Tail(t)))

\* the bounds check with < in place of <=
bounds_check_holds_strict(minimum_examined_static_size, minimum_all_static_size) ==
    \/ minimum_examined_static_size = nullptr_t
    \/ minimum_examined_static_size < minimum_all_static_size

\* the body of concept zip_static_size_bounds_check
bounds_check_holds(minimum_examined_static_size, minimum_all_static_size) ==
    \/ minimum_examined_static_size = nullptr_t
    \/ minimum_examined_static_size <= minimum_all_static_size

\* concept zip_static_size_bounds_check<examine_end_range, sizes>
zip_static_size_bounds_check(m, range_all_static_sizes) ==
    LET minimum_all_static_size == minimum_static_size(range_all_static_sizes)
        range_examined_static_sizes ==
            get_examined_static_size(m, range_all_static_sizes)
        minimum_examined_static_size ==
            minimum_static_size(range_examined_static_sizes)
    IN  bounds_check_holds(minimum_examined_static_size, minimum_all_static_size)

\* the first conjunct of the requires clause of class zip
selector_accepted(m) == m # 0

\* the requires clause of class zip
zip_requires(m, rs) ==
    /\ selector_accepted(m)
    /\ Len(rs) > 0
    /\ zip_static_size_bounds_check(m,
            [i \in 1 .. Len(rs) |-> get_static_size(rs[i])])

\* a deduction guide that selects element 1 instead of element 0
default_selector_second == Pow2(1)

\* selector of the deduction guide zip(rangeN &&...)
default_selector == 1

\* capture_end_iterators: the end of examined ranges, std::ignore otherwise
capture_end_iterators(m, rs) ==
    [i \in 1 .. Len(rs) |->
        IF examine_zip_element(m, i - 1) THEN End(rs, i) ELSE ignore]

\* zip::begin(): the view's own iterator, std::begin(rN)...
begin(rs) == [i \in 1 .. Len(rs) |-> Begin(rs, i)]

\* compare_zip_iterator<mask, N>
compare_zip_iterator(examined, n, l, r) ==
    IF examined THEN l[n + 1] = r[n + 1] ELSE FALSE

\* the fold written with && (the usual shape of an equality comparison)
compare_zip_iterators_and(m, l, r) ==
    \A n \in 0 .. (Len(l) - 1) :
        examine_zip_element(m, n) =>
            compare_zip_iterator(examine_zip_element(m, n), n, l, r)

\* compare_zip_iterators: the fold (... || ... || false)
compare_zip_iterators(m, l, r) ==
    \E n \in 0 .. (Len(l) - 1) :
        compare_zip_iterator(examine_zip_element(m, n), n, l, r)

\* zip_iterator::operator==(sentinel)
operator_eq(m, l, r) == compare_zip_iterators(m, l, r)

\* increment_iterator that advances element 0 only
increment_iterator_first(it) ==
    [i \in 1 .. Len(it) |-> IF i = 1 THEN it[i] + 1 ELSE it[i]]

\* increment_iterator: ++ on every element of the tuple
increment_iterator(it) == [i \in 1 .. Len(it) |-> it[i] + 1]

\* dereference_iterator: a tuple of references, i.e. of the addresses
dereference_iterator(it) == [i \in 1 .. Len(it) |-> it[i]]

\* operator- taking the minuend from the last element
operator_minus_last(l, r) == l[Len(l)] - r[1]

\* zip_iterator::operator-: the difference of element 0
operator_minus(l, r) == l[1] - r[1]

\* Some slot is at or beyond the end of its range: *i and ++i are undefined.
OutOfRange(rs, it) == \E i \in 1 .. Len(it) : it[i] >= End(rs, i)

TypeOK ==
    /\ pc \in {"new", "rejected", "constructed", "test", "body", "step",
               "done", "trap"}
    /\ ctor \in {"none", "A", "B"}
    /\ mask \in Masks
    /\ eq \in BOOLEAN
    /\ ub \in BOOLEAN
    /\ k \in 0 .. (MaxLen + 1)
    /\ yielded \in 0 .. (MaxLen + 1)

Init ==
    /\ pc = "new"
    /\ ctor = "none"
    /\ mask = 0
    /\ ranges = <<>>
    /\ pos = <<>>
    /\ m_end = <<>>
    /\ eq = FALSE
    /\ tup = <<>>
    /\ ret = <<>>
    /\ k = 0
    /\ yielded = 0
    /\ ub = FALSE

\* zip<index, m, rangeN...>::zip(rN...): rejected by the requires clause, or
\* the iterator base is begin(rN)... and m_end the captured ends.
zip_ctor(c, m, rs) ==
    /\ ctor' = c
    /\ mask' = m
    /\ ranges' = rs
    /\ IF zip_requires(m, rs)
        THEN /\ pc' = "constructed"
             /\ m_end' = capture_end_iterators(m, rs)
        ELSE /\ pc' = "rejected"
             /\ m_end' = <<>>
    /\ UNCHANGED <<pos, eq, tup, ret, k, yielded, ub>>

\* zip(r0, ..., rN-1): the deduction guide fixes the selector
ConstructA ==
    /\ pc = "new"
    /\ \E rs \in RangeTuples : zip_ctor("A", default_selector, rs)

\* zip(zip_sequence_selector<selector>(), r0, ..., rN-1)
ConstructB ==
    /\ pc = "new"
    /\ \E m \in Masks, rs \in RangeTuples : zip_ctor("B", m, rs)

\* for (auto i = zip_range.begin(), e = zip_range.end(); ...
LoopBegin ==
    /\ pc = "constructed"
    /\ pos' = begin(ranges)
    /\ pc' = "test"
    /\ UNCHANGED <<ctor, mask, ranges, m_end, eq, tup, ret, k, yielded, ub>>

\* ... i != e; ...
Test ==
    /\ pc = "test"
    /\ ~ub
    /\ eq' = operator_eq(mask, pos, m_end)
    /\ pc' = IF eq' THEN "done" ELSE "body"
    /\ UNCHANGED <<ctor, mask, ranges, pos, m_end, tup, ret, k, yielded, ub>>

\* the loop body: *i.  Undefined when a slot is at or past its end: the
\* build either reads whatever is at the address or traps.  Nothing is
\* defined after an undefined step, so every step of the loop requires ~ub
\* and a behaviour ends with its first undefined step.
Deref ==
    /\ pc = "body"
    /\ ~ub
    /\ IF OutOfRange(ranges, pos)
        THEN /\ ub' = TRUE
             /\ \/ /\ tup' = dereference_iterator(pos)
                   /\ yielded' = yielded + 1
                   /\ pc' = "step"
                \/ /\ pc' = "trap"
                   /\ UNCHANGED <<tup, yielded>>
        ELSE /\ tup' = dereference_iterator(pos)
             /\ yielded' = yielded + 1
             /\ pc' = "step"
             /\ ub' = ub
    /\ UNCHANGED <<ctor, mask, ranges, pos, m_end, eq, ret, k>>

\* the effect of increment_iterator on the loop's iterator.  Undefined when
\* a slot is already at or past its end: the build either computes the next
\* address or traps.  (In this loop the dereference of the body comes first
\* and is the undefined step.)
Advance ==
    /\ ~ub
    /\ IF OutOfRange(ranges, pos)
        THEN /\ ub' = TRUE
             /\ \/ /\ pos' = increment_iterator(pos)
                   /\ k' = k + 1
                   /\ pc' = "test"
                \/ /\ pc' = "trap"
                   /\ UNCHANGED <<pos, k>>
        ELSE /\ pos' = increment_iterator(pos)
             /\ k' = k + 1
             /\ pc' = "test"
             /\ ub' = ub

\* ++i: returns the advanced iterator
PreIncrement ==
    /\ pc = "step"
    /\ Advance
    /\ ret' = IF pc' = "trap" THEN ret ELSE pos'
    /\ UNCHANGED <<ctor, mask, ranges, m_end, eq, tup, yielded>>

\* i++: returns a copy taken before the advance
PostIncrement ==
    /\ pc = "step"
    /\ Advance
    /\ ret' = IF pc' = "trap" THEN ret ELSE pos
    /\ UNCHANGED <<ctor, mask, ranges, m_end, eq, tup, yielded>>

Next ==
    \/ ConstructA
    \/ ConstructB
    \/ LoopBegin
    \/ Test
    \/ Deref
    \/ PreIncrement
    \/ PostIncrement

Spec == Init /\ [][Next]_vars

(***************************************************************************)
(* The comparison on its own: every sentinel of an accepted view against   *)
(* every tuple of valid positions (not only the lock-step ones the loop    *)
(* reaches).                                                               *)
(***************************************************************************)

\* Largest range length explored for the comparison on arbitrary positions.
CmpMaxLen == 2

CmpRangeTuples ==
    UNION {[1 .. n -> [static : {FALSE}, len : 0 .. CmpMaxLen]] : n \in 1 .. MaxN}

\* all tuples of positions, slot i anywhere in [begin, end] of range i
PositionTuples(rs) ==
    {[i \in 1 .. Len(rs) |-> Begin(rs, i) + off[i]] :
        off \in {o \in [1 .. Len(rs) -> 0 .. CmpMaxLen] :
                    \A i \in 1 .. Len(rs) : o[i] <= rs[i].len}}

InitCmp ==
    /\ pc = "test"
    /\ ctor = "B"
    /\ mask \in Masks
    /\ ranges \in CmpRangeTuples
    /\ zip_requires(mask, ranges)
    /\ m_end = capture_end_iterators(mask, ranges)
    /\ pos \in PositionTuples(ranges)
    /\ eq = FALSE
    /\ tup = <<>>
    /\ ret = <<>>
    /\ k = 0
    /\ yielded = 0
    /\ ub = FALSE

NextCmp == Test

SpecCmp == InitCmp /\ [][NextCmp]_vars

(***************************************************************************)
(* Vocabulary of the properties, defined without the operators above.      *)
(***************************************************************************)

N == Len(ranges)

\* bit i of m is set: the remainder of m modulo 2^(i+1) reaches 2^i
BitSet(m, i) == (m % (2 ^ (i + 1))) >= 2 ^ i

\* the slots (1-based) of the zipped ranges the mask selects
Selected == {i \in 1 .. N : BitSet(mask, i - 1)}

Unselected == (1 .. N) \ Selected

SetMin(S) == CHOOSE x \in S : \A y \in S : x <= y

Lens(S) == {ranges[i].len : i \in S}

Static == {i \in 1 .. N : ranges[i].static}

Built == pc \notin {"new", "rejected"}

Decided == pc # "new"

InLoop == pc \in {"test", "body", "step", "done", "trap"}

Compared == pc \in {"body", "done"}

\* the shortest selected range's length (only used when Selected # {})
K == SetMin(Lens(Selected))

(***************************************************************************)
(* Termination comparison                                                  *)
(***************************************************************************)

\* C1: iterator == sentinel is true iff some slot whose bit is set in the
\* mask is at the end of its range; it is an OR over the examined slots and
\* the positions of the unexamined slots do not matter.
C1_CompareIsOrOverExamined ==
    Compared => (eq <=> \E i \in Selected : pos[i] = End(ranges, i))

\* C1 witness: the comparison is true with one examined slot at its end,
\* another examined slot not at its end and an unexamined slot not at its end.
C1_Witness ==
    /\ pc = "done"
    /\ eq
    /\ \E i \in Selected : \E j \in Selected :
        /\ pos[i] = End(ranges, i)
        /\ pos[j] # End(ranges, j)
    /\ \E u \in Unselected : pos[u] # End(ranges, u)

(***************************************************************************)
(* The loop for (i = begin(); i != end(); ++i)                             *)
(***************************************************************************)

C2_Pre ==
    /\ Built
    /\ Selected # {}
    /\ \A j \in Unselected : ranges[j].len >= K

\* C2: when no unselected range is shorter than the shortest selected one,
\* the loop executes no undefined step, never gets stuck before it is done,
\* never yields more than K tuples and is done after exactly K tuples, K
\* being the least length of a selected range.
C2_LoopYieldsMinSelected ==
    C2_Pre =>
        /\ ~ub
        /\ pc # "trap"
        /\ k <= K
        /\ yielded <= K
        /\ (pc = "test" => yielded = k)
        /\ (pc = "done" => yielded = K /\ k = K)
        /\ (pc # "done" => ENABLED Next)

\* C2 witness: three ranges, two selected ones of lengths 2 and 3 and an
\* unselected one of length 3; the loop is done after 2 tuples.
C2_Witness ==
    /\ pc = "done"
    /\ N = 3
    /\ mask = 3
    /\ ranges[1].len = 2
    /\ ranges[2].len = 3
    /\ ranges[3].len = 3
    /\ yielded = 2

\* C3: after k advances every slot, selected or not, is at offset k of its
\* range; the tuple of a dereference refers to offset k of every range and
\* is tuple number k + 1; ranges of one length L under the default selector
\* give exactly L tuples.
C3_LockStep ==
    (InLoop /\ ~ub) =>
        /\ \A i \in 1 .. N : pos[i] = Begin(ranges, i) + k
        /\ (pc = "step" =>
                /\ yielded = k + 1
                /\ \A i \in 1 .. N : tup[i] = Begin(ranges, i) + k)
        /\ (/\ pc = "done"
            /\ mask = 1
            /\ \A i \in 1 .. N : ranges[i].len = ranges[1].len
            => yielded = ranges[1].len)

\* C3 witness: the third tuple of a zip of three ranges, two of them
\* unselected, reached through a postfix advance.
C3_Witness ==
    /\ pc = "step"
    /\ ~ub
    /\ N = 3
    /\ mask = 1
    /\ k = 2
    /\ ret # pos

\* C8: it - begin() is the number of advances of it, for every selector and
\* whatever the other ranges are; the copy a postfix advance returns is one
\* advance behind.
C8_Distance ==
    (InLoop /\ ~ub) =>
        /\ operator_minus(pos, begin(ranges)) = k
        /\ (ret # <<>> =>
                operator_minus(ret, begin(ranges)) = IF ret = pos THEN k ELSE k - 1)

\* C8 witness: three advances, the last one postfix, of a view of at least
\* two ranges whose slot 0 is not selected.
C8_Witness ==
    /\ pc = "test"
    /\ ~ub
    /\ N >= 2
    /\ mask = 2
    /\ k = 3
    /\ ret # pos

(***************************************************************************)
(* Construction                                                            *)
(***************************************************************************)

\* C4: no view is constructed whose mask selects none of its N ranges.
C4_NoViewWithoutExaminedSlot == Built => Selected # {}

\* C5: with every static size known (and a selected range), construction is
\* accepted iff the least static size of the selected ranges is <= the
\* least static size of all ranges.
C5_StaticCheckAllKnown ==
    (Decided /\ Static = 1 .. N /\ Selected # {}) =>
        (pc # "rejected" <=> SetMin(Lens(Selected)) <= SetMin(Lens(1 .. N)))

\* C5 witness: a selected array of length 3 zipped with an unselected array
\* of length 2 has been rejected.
C5_Witness ==
    /\ pc = "rejected"
    /\ N = 2
    /\ Static = {1, 2}
    /\ mask = 1
    /\ ranges[1].len = 3
    /\ ranges[2].len = 2

C7_FirstUnknownNothingChecked ==
    (Decided /\ mask # 0 /\ ~ranges[1].static) => pc # "rejected"

\* the behaviour of a view whose selector is {bit 0}
OnlyFirstExamined ==
    /\ Selected = {1}
    /\ (pc = "rejected" <=>
            /\ ranges[1].static
            /\ \E j \in Static : ranges[j].len < ranges[1].len)
    /\ (Built =>
            m_end = [i \in 1 .. N |-> IF i = 1 THEN End(ranges, 1) ELSE ignore])
    /\ ((Compared /\ ~ub) => (eq <=> pos[1] = End(ranges, 1)))

\* C9: a view built without a selector has the mask {bit 0} and is accepted,
\* rejected and compared exactly like a view built with the selector
\* {bit 0}: only range 0 is examined.
C9_DefaultSelectorIsBit0 ==
    /\ (ctor = "A" => mask = 1 /\ OnlyFirstExamined)
    /\ (ctor = "B" /\ mask = 1 => OnlyFirstExamined)

\* C9 witness: the loop over a view of three ranges built without a
\* selector is done after two tuples.
C9_Witness ==
    /\ ctor = "A"
    /\ pc = "done"
    /\ ~ub
    /\ N = 3
    /\ yielded = 2
    /\ ranges[2].len = 3

\* C10: in the loop over an accepted view whose ranges all have a known
\* static size, no slot is beyond the end of its range and no slot is
\* dereferenced at its end.
C10_AcceptedStaticIsInBounds ==
    (InLoop /\ Static = 1 .. N) =>
        /\ ~ub
        /\ \A i \in 1 .. N : pos[i] <= End(ranges, i)
        /\ (pc = "step" => \A i \in 1 .. N : tup[i] < End(ranges, i))

=============================================================================
